---- MODULE Spec2Model ----
(***************************************************************************)
(* Model of the Klaviyo fetch-and-merge pipeline of src/data_sources.py:   *)
(* the HTTP fetcher (_request_json), the two paginators, the region loader *)
(* (_load_one_region) and the multi-region orchestrator                    *)
(* (load_dashboard_data_async under asyncio.run).                          *)
(*                                                                         *)
(* Python values are modelled as follows.  A dict is a function with a     *)
(* string domain; None is the record NONE; a DataFrame is the sequence of  *)
(* its rows (the empty DataFrame is <<>>); an exception is a record whose  *)
(* origin field stands for the identity of the exception object.           *)
(***************************************************************************)
EXTENDS Integers, Sequences, FiniteSets, TLC

\* ------------------------------------------------------------------ bounds
MaxFailures == 1      \* failing responses the upstream API produces in one run
MaxPages == 2         \* pages of one scripted paginated call (SpecPaginate)
MaxRows == 1          \* rows on one scripted page (SpecPaginate)
MaxRegionRows == 2    \* rows of each record set of the region (SpecRegion)
PageSize == 1         \* rows the API puts on one page (SpecRegion)

\* --------------------------------------------------------------- constants
REVISION == "2025-10-15"
ACCEPT == "application/vnd.api+json"
CONTENT_TYPE == "application/vnd.api+json"
REPORT_URL == "https://a.klaviyo.com/api/campaign-values-reports/"
CAMPAIGNS_URL == "https://a.klaviyo.com/api/campaigns"
REGION_LIST == <<"sg", "intl", "au", "hk", "tw">>
CONNECTOR_LIMIT == 20
START == "2025-04-01"
END == "2026-01-13"

STATISTICS ==
  <<"bounce_rate", "click_rate", "conversion_rate", "delivery_rate",
    "open_rate", "spam_complaint_rate", "unsubscribe_rate",
    "average_order_value", "opens", "clicks", "delivered",
    "spam_complaints", "unsubscribes", "bounced">>

NUMERIC_COLS ==
  <<"bounce_rate", "click_rate", "conversion_rate", "delivery_rate", "open_rate",
    "spam_complaint_rate", "unsubscribe_rate",
    "average_order_value",
    "opens", "clicks", "delivered",
    "spam_complaints", "unsubscribes", "bounced">>

DROPPED_COLS == <<"campaign_message_id", "archived">>

NONE == [none |-> TRUE]
NAN == [nan |-> TRUE]

Range(s) == {s[i] : i \in DOMAIN s}

Regions == Range(REGION_LIST)
Endpoints == {"campaigns", "report"}
Calls == Regions \X Endpoints

\* dict.get(key, default)
Get(d, key, default) == IF key \in DOMAIN d THEN d[key] ELSE default

\* Python truthiness of a URL value: None and "" end the while loop
Truthy(u) == u # NONE /\ u # [base |-> "", cursor |-> 0]

RECURSIVE Flatten(_)
Flatten(ss) == IF ss = <<>> THEN <<>> ELSE Head(ss) \o Flatten(Tail(ss))

\* ------------------------------------------------------------ configuration
Config(region) ==
  [name |-> <<"account", region>>,
   api_key |-> <<"key", region>>,
   pixel |-> <<"pixel", region>>]

Headers(api_key, is_post) ==
  LET h == [Authorization |-> <<"Klaviyo-API-Key", api_key>>,
            accept |-> ACCEPT,
            revision |-> REVISION]
  IN IF is_post THEN ("content-type" :> CONTENT_TYPE) @@ h ELSE h

Payload(conversion_metric_id, start, end) ==
  [data |->
    [type |-> "campaign-values-report",
     attributes |->
       [timeframe |-> [start |-> start, end |-> end],
        conversion_metric_id |-> conversion_metric_id,
        statistics |-> STATISTICS]]]

Params(start) ==
  [filter |-> [channel |-> "email", scheduled_at_ge |-> start]]

Url(base) == [base |-> base, cursor |-> 0]

BaseUrl(k) == IF k[2] = "report" THEN REPORT_URL ELSE CAMPAIGNS_URL

\* ------------------------------------------------- upstream API (environment)
CampaignIds == {"c1", "c2"}
OkStatuses == {200, 399}
ErrStatuses == {400, 503}
Tails == {"absent", "nonext", "null"}

EmptyDict == [x \in {} |-> NONE]

ErrorText(status) == IF status = 400 THEN "bad request" ELSE "unavailable"

Digits == [s \in {"7"} |-> 7]

StatValue(id, stat) ==
  IF id = "c1" THEN [num |-> 10]
  ELSE IF stat = "opens" THEN [str |-> "7"]
  ELSE IF stat = "clicks" THEN [str |-> "n/a"]
  ELSE [num |-> 0]

CampaignEntity(id) ==
  [type |-> "campaign",
   id |-> id,
   attributes |->
     [name |-> <<"name", id>>,
      status |-> "Sent",
      archived |-> FALSE,
      send_time |-> <<"sent", id>>,
      scheduled_at |-> <<"scheduled", id>>]]

ReportResult(id, page, i) ==
  [groupings |->
     [send_channel |-> "email",
      campaign_id |-> id,
      campaign_message_id |-> <<"message", id, page, i>>],
   statistics |-> [s \in Range(STATISTICS) |-> StatValue(id, s)]]

\* The `links` part of page n of a script: every page but the last carries a
\* next link, in which the server embeds the query; the last page has no
\* links object, a links object without next, or a null next.
Links(k, script, n) ==
  IF n < Len(script.pages)
    THEN [links |-> [next |-> [base |-> BaseUrl(k), cursor |-> n]]]
  ELSE IF script.tail = "absent" THEN EmptyDict
  ELSE IF script.tail = "nonext" THEN [links |-> [self |-> [base |-> BaseUrl(k), cursor |-> n - 1]]]
  ELSE [links |-> [next |-> NONE]]

PageJson(k, script, n) ==
  LET ids == script.pages[n]
  IN IF k[2] = "campaigns"
       THEN [data |-> [i \in DOMAIN ids |-> CampaignEntity(ids[i])]] @@ Links(k, script, n)
       ELSE [data |-> [attributes |->
               [results |-> [i \in DOMAIN ids |-> ReportResult(ids[i], n, i)]]]]
            @@ Links(k, script, n)

\* The page a request addresses: the original URL is page 1, the next link
\* with cursor c is page c + 1.
PageOf(req) == req.url.cursor + 1

OkResponse(k, script, req) ==
  [status |-> script.status, text |-> "json", json |-> PageJson(k, script, PageOf(req))]

ErrorResponse(status) ==
  [status |-> status, text |-> ErrorText(status), json |-> NONE]

\* ------------------------------------------------------------ HTTP fetcher
\* Faulty variant: only 2xx counts as success.
RaiseNon2xx(status) == status >= 300

RaiseForStatus(status) == status >= 400

HttpError(req, resp, k) ==
  [kind |-> "RuntimeError",
   method |-> req.method,
   url |-> req.url,
   status |-> resp.status,
   text |-> resp.text,
   origin |-> k]

\* One call of _request_json on the response of its one request.
RequestJson(req, resp, k) ==
  IF RaiseForStatus(resp.status)
    THEN [raised |-> TRUE, err |-> HttpError(req, resp, k), value |-> NONE]
    ELSE [raised |-> FALSE, err |-> NONE, value |-> resp.json]

\* Faulty variant: the next page is requested along with the current one.
RequestsAhead(k, n) == {[call |-> k, seq |-> n], [call |-> k, seq |-> n + 1]}

\* The requests one call of _request_json puts on the wire.
RequestsOnWire(k, n) == {[call |-> k, seq |-> n]}

\* --------------------------------------------------------------- paginators
ReportRows(data) ==
  LET results == data.data.attributes.results
  IN [i \in DOMAIN results |-> results[i].statistics @@ results[i].groupings]

CampaignRows(data) ==
  LET d == Get(data, "data", <<>>)
  IN [i \in DOMAIN d |->
       [type |-> d[i].type,
        campaign_id |-> d[i].id,
        name |-> Get(d[i].attributes, "name", NONE),
        status |-> Get(d[i].attributes, "status", NONE),
        archived |-> Get(d[i].attributes, "archived", NONE),
        send_time |-> Get(d[i].attributes, "send_time", NONE),
        scheduled_at |-> Get(d[i].attributes, "scheduled_at", NONE)]]

PageRows(k, data) == IF k[2] = "report" THEN ReportRows(data) ELSE CampaignRows(data)

\* Faulty variant: a page's rows are put in front of the rows so far.
AccumulatePrepend(rows, new) == new \o rows

Accumulate(rows, new) == rows \o new

NextLink(data) == Get(Get(data, "links", EmptyDict), "next", NONE)

\* Faulty variant: the query parameters are not cleared for the next links.
NextParamsKept(params) == params

\* next_params after the first response of the listing pagination
NextParams(params) == NONE

\* The local state of a paginated call before its first request.
NewCall(k) ==
  [pc |-> "new",
   kind |-> k[2],
   rows |-> <<>>,
   next_url |-> Url(BaseUrl(k)),
   next_params |-> IF k[2] = "campaigns" THEN Params(START) ELSE NONE,
   page |-> 0,
   result |-> <<>>,
   err |-> NONE]

\* The request of the current loop iteration.
RequestOf(k, c) ==
  IF k[2] = "report"
    THEN [method |-> "POST",
          url |-> c.next_url,
          headers |-> Headers(Config(k[1]).api_key, TRUE),
          params |-> NONE,
          json |-> Payload(Config(k[1]).pixel, START, END)]
    ELSE [method |-> "GET",
          url |-> c.next_url,
          headers |-> Headers(Config(k[1]).api_key, FALSE),
          params |-> c.next_params,
          json |-> NONE]

\* Faulty variant: the paginator catches the error and returns the rows it has.
OnFetchErrorPartial(c, err) ==
  [c EXCEPT !.pc = "done", !.result = <<c.rows>>]

\* An exception leaves the paginator: the frame and its rows are gone.
OnFetchError(c, err) ==
  [c EXCEPT !.pc = "failed", !.err = err, !.rows = <<>>]

\* One iteration of the while loop after the awaited fetch has ended with `out`.
PaginatorStep(k, c, out) ==
  IF out.raised THEN OnFetchError(c, out.err)
  ELSE LET rows2 == Accumulate(c.rows, PageRows(k, out.value))
           nxt == NextLink(out.value)
       IN IF Truthy(nxt)
            THEN [c EXCEPT !.rows = rows2, !.page = @ + 1, !.next_url = nxt,
                           !.next_params = NextParams(@)]
            ELSE [c EXCEPT !.rows = rows2, !.page = @ + 1, !.next_url = nxt,
                           !.next_params = NextParams(@),
                           !.pc = "done", !.result = <<rows2>>]

\* ------------------------------------------------------------ region loader
Empty(df) == df = <<>>

\* Faulty variant: the join is skipped only when both results are empty.
ShortCircuitBoth(df1, df2) == Empty(df1) /\ Empty(df2)

\* The guard of the short-circuit branch of _load_one_region.
ShortCircuit(df1, df2) == Empty(df1) \/ Empty(df2)

\* Faulty variant: a campaign is joined with its first report row only.
JoinRowFirstMatch(left, df2) ==
  LET m == SelectSeq(df2, LAMBDA r : r.campaign_id = left.campaign_id)
  IN IF m = <<>> THEN <<>> ELSE <<left @@ m[1]>>

\* The rows df1.merge(df2, how="inner", on="campaign_id") makes of one left row.
JoinRow(left, df2) ==
  LET m == SelectSeq(df2, LAMBDA r : r.campaign_id = left.campaign_id)
  IN [j \in DOMAIN m |-> left @@ m[j]]

Merge(df1, df2) == Flatten([i \in DOMAIN df1 |-> JoinRow(df1[i], df2)])

DropCols(row, cols) == [c \in DOMAIN row \ Range(cols) |-> row[c]]

\* The table _load_one_region returns for the two paginators' results.
RegionTable(region_cfg, df1, df2) ==
  IF ShortCircuit(df1, df2) THEN <<>>
  ELSE LET df == Merge(df1, df2)
       IN [i \in DOMAIN df |->
            ("account" :> region_cfg.name) @@ DropCols(df[i], DROPPED_COLS)]

NewRegion == [pc |-> "new", df |-> <<>>, err |-> NONE, joined |-> FALSE]

\* _load_one_region from its await of asyncio.gather on, as one of its two
\* paginator tasks ends with frame c: the first exception ends the gather
\* and leaves the loader at once; once both tasks are done the loader
\* builds its table and returns it.
LoadOneRegion(rg, r, c, other) ==
  IF rg.pc # "waiting" THEN rg
  ELSE IF c.pc = "failed" THEN [rg EXCEPT !.pc = "raised", !.err = c.err]
  ELSE IF c.pc = "done" /\ other.pc = "done"
    THEN LET df1 == IF c.kind = "campaigns" THEN c.result[1] ELSE other.result[1]
             df2 == IF c.kind = "report" THEN c.result[1] ELSE other.result[1]
         IN [rg EXCEPT !.pc = "returned",
                       !.df = RegionTable(Config(r), df1, df2),
                       !.joined = ~ShortCircuit(df1, df2)]
  ELSE rg

\* Faulty variant: the gather cancels the other paginator of the region.
GatherCancelsSibling(calls, k) ==
  [x \in DOMAIN calls |->
    IF x = <<k[1], IF k[2] = "report" THEN "campaigns" ELSE "report">> /\ calls[x].pc = "inflight"
      THEN [calls[x] EXCEPT !.pc = "aborted", !.rows = <<>>]
      ELSE calls[x]]

\* What asyncio.gather does to the other awaitables when the task of call k
\* has raised: nothing, they keep running.
GatherOnError(calls, k) == calls

\* ------------------------------------------------------------ orchestrator
NonEmpty(dfs) == SelectSeq(dfs, LAMBDA d : ~Empty(d))

RECURSIVE FlattenReversed(_)
FlattenReversed(ss) == IF ss = <<>> THEN <<>> ELSE FlattenReversed(Tail(ss)) \o Head(ss)

\* Faulty variant: each table is put in front of the tables before it.
ConcatReversed(dfs) == FlattenReversed(dfs)

Concat(dfs) == Flatten(dfs)

ToNumeric(v) ==
  IF "num" \in DOMAIN v THEN v
  ELSE IF "str" \in DOMAIN v /\ v.str \in DOMAIN Digits THEN [num |-> Digits[v.str]]
  ELSE NAN

Coerce(df) ==
  [i \in DOMAIN df |->
    [c \in DOMAIN df[i] |->
      IF c \in Range(NUMERIC_COLS) THEN ToNumeric(df[i][c]) ELSE df[i][c]]]

\* The value load_dashboard_data_async returns for the gathered tables.
Dataset(dfs) == Coerce(Concat(NonEmpty(dfs)))

\* Faulty variant: the gather collects exceptions (return_exceptions=True) and the
\* loaders that raised count as tables without rows.
GatherRegionsCollect(o, rg, others) ==
  IF o.pc # "waiting" \/ o.g # "pending" THEN o
  ELSE IF rg.pc \in {"returned", "raised"} /\ \A x \in others : x.pc \in {"returned", "raised"}
    THEN [o EXCEPT !.g = "ok"]
  ELSE o

\* asyncio.gather over the region loaders, as the loader of region r ends.
GatherRegions(o, rg, others) ==
  IF o.pc # "waiting" \/ o.g # "pending" THEN o
  ELSE IF rg.pc = "raised" THEN [o EXCEPT !.g = "err", !.gerr = rg.err]
  ELSE IF rg.pc = "returned" /\ \A x \in others : x.pc = "returned" THEN [o EXCEPT !.g = "ok"]
  ELSE o

\* ------------------------------------------------------------------- state
VARIABLES
  entry,     \* the function the caller has invoked
  server,    \* per paginated call, the pages the upstream API holds
  call,      \* per paginated call, the paginator's frame
  reqs,      \* per paginated call, the requests issued so far
  net,       \* the requests awaiting their response
  region,    \* per region, the frame of _load_one_region
  orch,      \* the frame of load_dashboard_data_async and its session
  failures   \* failing responses the API has produced

vars == <<entry, server, call, reqs, net, region, orch, failures>>

Other(k) == <<k[1], IF k[2] = "report" THEN "campaigns" ELSE "report">>

DefaultScript == [pages |-> <<<<>>>>, status |-> 200, tail |-> "absent", fail |-> 503]

\* The pages the API serves for the record ids `ids`, PageSize a page.
RECURSIVE Chunk(_)
Chunk(ids) ==
  IF Len(ids) <= PageSize THEN <<ids>>
  ELSE <<SubSeq(ids, 1, PageSize)>> \o Chunk(SubSeq(ids, PageSize + 1, Len(ids)))

SeqsUpTo(S, n) == UNION {[1..m -> S] : m \in 0..n}

\* The paginator has been entered and its first request is on the wire.
StartedCall(k) == [NewCall(k) EXCEPT !.pc = "inflight"]

FirstRequests(ks) ==
  [k \in Calls |-> IF k \in ks THEN <<RequestOf(k, NewCall(k))>> ELSE <<>>]

FirstOnWire(ks) == UNION {RequestsOnWire(k, 1) : k \in ks}

IdleOrch ==
  [pc |-> "absent", session |-> "open", g |-> "pending", gerr |-> NONE,
   result |-> <<>>, err |-> NONE]

Script(pages, status, tail, fail) ==
  [pages |-> pages, status |-> status, tail |-> tail, fail |-> fail]

\* The pages the API holds in the run of load_dashboard_data that is modelled.
Fixture ==
  [k \in Calls |->
    CASE k = <<"sg", "campaigns">> -> Script(<<<<"c1", "c2">>>>, 200, "absent", 503)
      [] k = <<"sg", "report">> -> Script(<<<<"c1", "c2">>>>, 200, "nonext", 400)
      [] k = <<"intl", "campaigns">> -> Script(<<<<>>>>, 200, "null", 400)
      [] k = <<"intl", "report">> -> Script(<<<<"c1">>>>, 200, "absent", 503)
      [] k = <<"au", "campaigns">> -> Script(<<<<"c1">>>>, 200, "absent", 400)
      [] k = <<"au", "report">> -> Script(<<<<>>>>, 200, "absent", 400)
      [] k = <<"hk", "campaigns">> -> Script(<<<<"c2">>>>, 200, "nonext", 400)
      [] k = <<"hk", "report">> -> Script(<<<<"c2">>, <<"c2">>>>, 200, "null", 503)
      [] k = <<"tw", "campaigns">> -> Script(<<<<"c1", "c2">>>>, 399, "absent", 503)
      [] OTHER -> Script(<<<<"c2", "c1">>>>, 200, "absent", 400)]

\* load_dashboard_data is about to be called.
Init ==
  /\ entry = [fn |-> "load_dashboard_data", region |-> "", endpoint |-> ""]
  /\ server = Fixture
  /\ call = [k \in Calls |-> NewCall(k)]
  /\ reqs = [k \in Calls |-> <<>>]
  /\ net = {}
  /\ region = [r \in Regions |-> NewRegion]
  /\ orch = [IdleOrch EXCEPT !.session = "none"]
  /\ failures = 0

\* _load_one_region is about to be called alone, on an open session.
InitRegion ==
  /\ entry = [fn |-> "_load_one_region", region |-> "sg", endpoint |-> ""]
  /\ \E c \in SeqsUpTo(CampaignIds, MaxRegionRows), r \in SeqsUpTo(CampaignIds, MaxRegionRows) :
       server = [k \in Calls |->
                  IF k = <<"sg", "campaigns">> THEN [DefaultScript EXCEPT !.pages = Chunk(c)]
                  ELSE IF k = <<"sg", "report">> THEN [DefaultScript EXCEPT !.pages = Chunk(r)]
                  ELSE DefaultScript]
  /\ call = [k \in Calls |-> NewCall(k)]
  /\ reqs = [k \in Calls |-> <<>>]
  /\ net = {}
  /\ region = [r \in Regions |-> NewRegion]
  /\ orch = IdleOrch
  /\ failures = 0

\* One paginator is about to be called alone, on an open session.
InitPaginate ==
  /\ \E e \in Endpoints : entry = [fn |-> "paginate", region |-> "sg", endpoint |-> e]
  /\ \E n \in 1..MaxPages :
       \E ps \in [1..n -> SeqsUpTo(CampaignIds, MaxRows)], st \in OkStatuses,
          t \in Tails, f \in ErrStatuses :
         server = [k \in Calls |->
                    IF k = <<entry.region, entry.endpoint>>
                      THEN Script(ps, st, t, f)
                      ELSE DefaultScript]
  /\ call = [k \in Calls |-> NewCall(k)]
  /\ reqs = [k \in Calls |-> <<>>]
  /\ net = {}
  /\ region = [r \in Regions |-> NewRegion]
  /\ orch = IdleOrch
  /\ failures = 0

\* ----------------------------------------------------------------- actions
RegionCalls(r) == {<<r, e>> : e \in Endpoints}

\* A paginator called alone runs to its first await: the first request.
StartPaginate ==
  LET k == <<entry.region, entry.endpoint>>
  IN /\ entry.fn = "paginate"
     /\ call[k].pc = "new"
     /\ call' = [call EXCEPT ![k] = StartedCall(k)]
     /\ reqs' = FirstRequests({k})
     /\ net' = FirstOnWire({k})
     /\ UNCHANGED <<entry, server, region, orch, failures>>

\* _load_one_region called alone creates its two tasks and awaits their
\* gather; each task runs to its first request.
StartRegion ==
  LET r == entry.region
  IN /\ entry.fn = "_load_one_region"
     /\ region[r].pc = "new"
     /\ region' = [region EXCEPT ![r].pc = "waiting"]
     /\ call' = [k \in Calls |-> IF k \in RegionCalls(r) THEN StartedCall(k) ELSE call[k]]
     /\ reqs' = FirstRequests(RegionCalls(r))
     /\ net' = FirstOnWire(RegionCalls(r))
     /\ UNCHANGED <<entry, server, orch, failures>>

\* load_dashboard_data: asyncio.run starts load_dashboard_data_async, which
\* opens the session and awaits the gather of the five loaders; the loop then
\* runs every new task, in creation order, to its first await.  The ten
\* first requests fit the connection pool, which delays none of them.
Launch ==
  /\ entry.fn = "load_dashboard_data"
  /\ orch.pc = "absent"
  /\ Cardinality(FirstOnWire(Calls)) <= CONNECTOR_LIMIT
  /\ orch' = [orch EXCEPT !.pc = "waiting", !.session = "open"]
  /\ region' = [r \in Regions |-> [NewRegion EXCEPT !.pc = "waiting"]]
  /\ call' = [k \in Calls |-> StartedCall(k)]
  /\ reqs' = FirstRequests(Calls)
  /\ net' = FirstOnWire(Calls)
  /\ UNCHANGED <<entry, server, failures>>

\* The responses the API may give to the outstanding request of call k.
Responses(k) ==
  {OkResponse(k, server[k], reqs[k][Len(reqs[k])])}
    \cup (IF failures < MaxFailures THEN {ErrorResponse(server[k].fail)} ELSE {})

\* The frame of call k becomes c2; when its task has ended, the gather of
\* its region's loader is told, and the gather of the loaders in turn.
Settle(k, c2) ==
  LET calls2 == [call EXCEPT ![k] = c2]
      rg2 == LoadOneRegion(region[k[1]], k[1], c2, call[Other(k)])
  IN /\ call' = (IF c2.pc = "failed" THEN GatherOnError(calls2, k) ELSE calls2)
     /\ region' = [region EXCEPT ![k[1]] = rg2]
     /\ orch' = GatherRegions(orch, rg2, {region[x] : x \in Regions \ {k[1]}})

\* The response to the outstanding request of call k arrives while the
\* session is open: _request_json ends, the loop body runs, and the loop
\* either issues the next request or leaves.
Respond(k) ==
  /\ call[k].pc = "inflight"
  /\ orch.session = "open"
  /\ \E m \in net, resp \in Responses(k) :
       /\ m.call = k
       /\ LET req == reqs[k][Len(reqs[k])]
              c2 == PaginatorStep(k, call[k], RequestJson(req, resp, k))
          IN /\ Settle(k, c2)
             /\ IF c2.pc = "inflight"
                  THEN /\ reqs' = [reqs EXCEPT ![k] = Append(@, RequestOf(k, c2))]
                       /\ net' = (net \ {m}) \cup RequestsOnWire(k, Len(reqs[k]) + 1)
                  ELSE /\ reqs' = reqs
                       /\ net' = net \ {m}
       /\ failures' = failures + (IF resp.status \in ErrStatuses THEN 1 ELSE 0)
  /\ UNCHANGED <<entry, server>>

\* What ends a task that has not finished when load_dashboard_data raises:
\* the session block of load_dashboard_data_async closes the session under
\* its outstanding request, and asyncio.run cancels every task that is not
\* done before it raises.  "aborted" stands for either end of the task (its
\* request failed on the closed session, or the task was cancelled); what a
\* task yields during this teardown is never used.
Abort(c) == [c EXCEPT !.pc = "aborted", !.rows = <<>>]

\* The gather of the loaders has an outcome and load_dashboard_data_async
\* resumes.  With the tables it leaves the session block, builds the dataset
\* and returns, and asyncio.run returns it.  With an exception it leaves the
\* session block on its way out, and asyncio.run ends the tasks that are
\* left and raises the exception.
OrchResume ==
  /\ orch.pc = "waiting"
  /\ orch.g # "pending"
  /\ IF orch.g = "err"
       THEN /\ orch' = [orch EXCEPT !.pc = "raised", !.session = "closed", !.err = orch.gerr]
            /\ call' = [k \in Calls |-> IF call[k].pc = "inflight" THEN Abort(call[k]) ELSE call[k]]
            /\ region' = [r \in Regions |->
                           IF region[r].pc = "waiting"
                             THEN [region[r] EXCEPT !.pc = "aborted"]
                             ELSE region[r]]
            /\ net' = {}
       ELSE /\ orch' = [orch EXCEPT !.pc = "returned", !.session = "closed",
                          !.result = <<Dataset([i \in DOMAIN REGION_LIST |-> region[REGION_LIST[i]].df])>>]
            /\ UNCHANGED <<call, region, net>>
  /\ UNCHANGED <<entry, server, reqs, failures>>

Next ==
  \/ Launch
  \/ \E k \in Calls : Respond(k)
  \/ OrchResume

NextRegion ==
  \/ StartRegion
  \/ \E k \in Calls : Respond(k)

NextPaginate ==
  \/ StartPaginate
  \/ \E k \in Calls : Respond(k)

Spec == Init /\ [][Next]_vars

SpecRegion == InitRegion /\ [][NextRegion]_vars

SpecPaginate == InitPaginate /\ [][NextPaginate]_vars

\* The paginators terminate when the API answers: the event loop runs every
\* task whose response has arrived.
FairPaginate == InitPaginate /\ [][NextPaginate]_vars /\ WF_vars(NextPaginate)

\* ------------------------------------------------------------- properties
\* The paginated call that was entered alone.
K0 == <<entry.region, entry.endpoint>>

\* The rows of pages 1..n of the script of call k, in page order.
RowsOfPages(k, n) ==
  Flatten([p \in 1..n |-> PageRows(k, PageJson(k, server[k], p))])

Outstanding(k) == {m \in net : m.call = k}

Count(df, id) == Cardinality({i \in DOMAIN df : df[i].campaign_id = id})

Ended(c) == c.pc \in {"done", "failed", "aborted"}

\* The end of the paginated call that was entered alone: a fetch failed, or
\* the call returned the rows of all its pages after one request a page.
C3_End ==
  \/ call[K0].pc = "failed"
  \/ /\ call[K0].pc = "done"
     /\ call[K0].result = <<RowsOfPages(K0, Len(server[K0].pages))>>
     /\ Len(reqs[K0]) = Len(server[K0].pages)

\* C3: a paginated call whose pages are all answered successfully ends, and
\* returns the rows of all its pages in page order (no rows for one page
\* without rows and without next link).
C3_Terminates == <>[]C3_End

C3_Witness ==
  /\ call[K0].pc = "done"
  /\ Len(server[K0].pages) >= 2
  /\ server[K0].pages[1] # server[K0].pages[2]
  /\ Len(call[K0].result[1]) >= 2

\* C5: each fetch puts one request on the wire; a response with status >= 400
\* makes it raise an error with the method, URL, status and body text, and a
\* response with status < 400 makes it return the parsed body.
C5_FetcherContract ==
  LET c == call[K0]
      n == Len(reqs[K0])
  IN /\ n = c.page + (IF c.pc \in {"inflight", "failed"} THEN 1 ELSE 0)
     /\ Cardinality(Outstanding(K0)) = (IF c.pc = "inflight" THEN 1 ELSE 0)
     /\ (c.pc = "failed") = (failures > 0)
     /\ c.pc = "failed" =>
          /\ c.err.kind = "RuntimeError"
          /\ c.err.method = reqs[K0][n].method
          /\ c.err.url = reqs[K0][n].url
          /\ c.err.status = server[K0].fail
          /\ c.err.status >= 400
          /\ c.err.text = ErrorText(server[K0].fail)
     /\ c.pc \in {"inflight", "done"} => c.rows = RowsOfPages(K0, c.page)

C5_Witness ==
  /\ call[K0].pc = "failed"
  /\ call[K0].err.status = 400
  /\ server[K0].status = 399
  /\ call[K0].page >= 1

\* C8: when the fetch of a page fails, the paginated call ends with the
\* fetcher's error, returns nothing, keeps no rows and issues no request.
C8_MidPaginationFailure ==
  LET c == call[K0]
      n == Len(reqs[K0])
  IN failures > 0 =>
       /\ c.pc = "failed"
       /\ c.err = HttpError(reqs[K0][n], ErrorResponse(server[K0].fail), K0)
       /\ c.result = <<>>
       /\ c.rows = <<>>
       /\ n = c.page + 1
       /\ Outstanding(K0) = {}

C8_Witness ==
  /\ call[K0].pc = "failed"
  /\ call[K0].page >= 1
  /\ server[K0].pages[1] # <<>>

\* The first request of a paginated call carries what the caller supplied.
FirstRequestSupplied(k) ==
  LET q == reqs[k][1]
  IN /\ q.url = Url(BaseUrl(k))
     /\ q.params = (IF k[2] = "campaigns" THEN Params(START) ELSE NONE)
     /\ q.json = (IF k[2] = "report" THEN Payload(Config(k[1]).pixel, START, END) ELSE NONE)

\* Request i >= 2 goes to the next link of the response to request i - 1.
FollowsNext(k, i) ==
  reqs[k][i].url = PageJson(k, server[k], i - 1).links.next

\* C9 as stated: later requests carry neither the query parameters nor the
\* body of the first request.
C9_NoResend ==
  reqs[K0] # <<>> =>
    /\ FirstRequestSupplied(K0)
    /\ \A i \in 2..Len(reqs[K0]) :
         /\ FollowsNext(K0, i)
         /\ reqs[K0][i].params = NONE
         /\ reqs[K0][i].json = NONE

\* C9 (amended): later requests go to the next link of the preceding
\* response without query parameters; the report paginator sends the body of
\* its first request again with each of them.
C9_Continuation ==
  reqs[K0] # <<>> =>
    /\ FirstRequestSupplied(K0)
    /\ \A i \in 2..Len(reqs[K0]) :
         /\ FollowsNext(K0, i)
         /\ reqs[K0][i].params = NONE
         /\ reqs[K0][i].json = reqs[K0][1].json

C9_Witness ==
  /\ Len(reqs[K0]) >= 2
  /\ K0[2] = "campaigns"
  /\ reqs[K0][1].params # NONE

\* The records the two paginators returned to the loader of region r.
CampaignRecords(r) == call[<<r, "campaigns">>].result[1]

ReportRecords(r) == call[<<r, "report">>].result[1]

\* C4 as stated: a region table is empty or has one row for each campaign_id
\* in both record sets, and none for a campaign_id in one of them only.
C4_OneRowPerCampaign ==
  LET r == entry.region
  IN region[r].pc = "returned" =>
       \/ region[r].df = <<>>
       \/ \A id \in CampaignIds :
            Count(region[r].df, id) =
              (IF Count(CampaignRecords(r), id) > 0 /\ Count(ReportRecords(r), id) > 0
                 THEN 1 ELSE 0)

\* C4 (amended): a region table has one row for each pair of a campaign
\* record and a report record with the same campaign_id, so none for a
\* campaign_id in one record set only and one when it is once in each.
C4_OneRowPerPair ==
  LET r == entry.region
  IN region[r].pc = "returned" =>
       \A id \in CampaignIds :
         Count(region[r].df, id) =
           Count(CampaignRecords(r), id) * Count(ReportRecords(r), id)

C4_Witness ==
  LET r == entry.region
  IN /\ region[r].pc = "returned"
     /\ \E a, b \in CampaignIds :
          /\ Count(CampaignRecords(r), a) = 1
          /\ Count(ReportRecords(r), a) = 2
          /\ Count(region[r].df, a) = 2
          /\ Count(CampaignRecords(r), b) = 1
          /\ Count(ReportRecords(r), b) = 0
          /\ Count(region[r].df, b) = 0

\* C6: a loader whose campaign records or report records are empty returns
\* an empty table without joining, and the dataset has no row of its account.
C6_ShortCircuit ==
  \A r \in Regions :
    (region[r].pc = "returned" /\ (CampaignRecords(r) = <<>> \/ ReportRecords(r) = <<>>)) =>
      /\ region[r].df = <<>>
      /\ ~region[r].joined
      /\ orch.pc = "returned" =>
           \A i \in DOMAIN orch.result[1] : orch.result[1][i].account # Config(r).name

C6_Witness ==
  /\ orch.pc = "returned"
  /\ orch.result[1] # <<>>
  /\ CampaignRecords("intl") = <<>> /\ ReportRecords("intl") # <<>>
  /\ CampaignRecords("au") # <<>> /\ ReportRecords("au") = <<>>
  /\ region["sg"].joined

Raised == {r \in Regions : region[r].pc = "raised"}

IsHttpError(e) == e.kind = "RuntimeError" /\ e.status >= 400

\* C1: once a loader has raised an HTTP error the orchestrator does not
\* return a dataset: it ends by raising the error of a loader that raised,
\* which is that loader's when one loader raised.
C1_AllOrNothing ==
  /\ orch.pc = "returned" => \A r \in Regions : region[r].pc = "returned"
  /\ Raised # {} => orch.pc \in {"waiting", "raised"} /\ orch.g = "err"
  /\ orch.pc = "raised" =>
       /\ orch.result = <<>>
       /\ IsHttpError(orch.err)
       /\ \E r \in Raised : orch.err = region[r].err

C1_Witness ==
  /\ orch.pc = "raised"
  /\ Raised = {"hk"}
  /\ orch.err = region["hk"].err
  /\ \A r \in Regions \ {"hk"} : region[r].pc = "returned"
  /\ region["sg"].df # <<>>

\* What identifies a row of a table, whatever the numeric coercion did.
Key(row) == <<row.account, row.campaign_id, row.name, row.send_channel>>

Keys(df) == [i \in DOMAIN df |-> Key(df[i])]

\* C2: the returned dataset holds the rows of the tables of sg, intl, au, hk
\* and tw, in this order, each table's rows in the table's order.
C2_RegionOrder ==
  orch.pc = "returned" =>
    Keys(orch.result[1]) =
      Keys(region["sg"].df) \o Keys(region["intl"].df) \o Keys(region["au"].df)
        \o Keys(region["hk"].df) \o Keys(region["tw"].df)

C2_Witness ==
  /\ orch.pc = "returned"
  /\ region["sg"].df # <<>>
  /\ region["hk"].df # <<>>
  /\ region["tw"].df # <<>>
  /\ Len(orch.result[1]) = Len(region["sg"].df) + Len(region["hk"].df) + Len(region["tw"].df)

\* C7 as stated: no task of the pipeline is ever ended by the pipeline; each
\* paginated call ends done or failed by its own requests.
C7_NeverAborted ==
  \A k \in Calls : call[k].pc # "aborted"

\* C7 (amended): a loader's failure ends no other task while the
\* orchestrator has not resumed; when load_dashboard_data raises, every task
\* that has not finished is ended with it and no request stays outstanding.
C7_AbortedOnlyAtExit ==
  /\ (\E k \in Calls : call[k].pc = "aborted") => orch.pc = "raised"
  /\ (\E r \in Regions : region[r].pc = "aborted") => orch.pc = "raised"
  /\ orch.pc = "raised" => net = {} /\ \A k \in Calls : Ended(call[k])
  /\ orch.pc = "waiting" =>
       \A k \in Calls : call[k].pc = "inflight" \/ call[k].pc = "done" \/ call[k].pc = "failed"

C7_Witness ==
  /\ orch.pc = "waiting"
  /\ region["hk"].pc = "raised"
  /\ call[<<"hk", "campaigns">>].pc = "failed"
  /\ call[<<"hk", "report">>].pc = "inflight"
  /\ call[<<"hk", "report">>].page = 1
  /\ call[<<"sg", "report">>].pc = "inflight"
  /\ region["tw"].pc = "returned"

\* C10: a paginated call has at most one request outstanding, and request
\* N + 1 is issued only after the responses to requests 1..N; the calls of a
\* region and of different regions are outstanding together.
C10_Sequential ==
  \A k \in Calls :
    /\ Cardinality(Outstanding(k)) <= 1
    /\ (call[k].pc = "inflight") = (Outstanding(k) # {})
    /\ Len(reqs[k]) <= call[k].page + 1
    /\ \A m \in Outstanding(k) : m.seq = Len(reqs[k]) /\ m.seq = call[k].page + 1

C10_Witness ==
  /\ Outstanding(<<"hk", "report">>) = {[call |-> <<"hk", "report">>, seq |-> 2]}
  /\ Outstanding(<<"hk", "campaigns">>) # {}
  /\ call[<<"sg", "campaigns">>].pc = "done" /\ Outstanding(<<"sg", "report">>) # {}
  /\ call[<<"intl", "report">>].pc = "done" /\ Outstanding(<<"intl", "campaigns">>) # {}
  /\ region["tw"].pc = "returned"

====
